---------------------------- MODULE Spec2Model ----------------------------
(***************************************************************************)
(* Model of widgelabel.LabellingClient (src/widgelabel.py): the record     *)
(* store, the sentiment and tag tables, the two CSV files, the cursor and  *)
(* the widget callbacks.                                                   *)
(*                                                                         *)
(* A pandas DataFrame is a sequence of rows.  A cell value carries its     *)
(* Python type: ids and sentiments are [ty |-> "int" | "str", tx |-> text],*)
(* a tags cell is a Python list of tags (TagsList) or, once read back      *)
(* from the tags file, the str that to_csv wrote for that list (TagsStr).  *)
(* A Python str that the code searches ("tag in tmp_tags") is a sequence   *)
(* of one-character strings.                                               *)
(***************************************************************************)
EXTENDS Integers, Sequences, FiniteSets, TLC

\* ------------------------------------------------------------ bounds
\* How far the cursor may run past either end of the records.
MaxOvershoot == 1
\* Number of times the client is constructed again over the saved files.
MaxRestarts == 2

\* ------------------------------------------------------------ values
None == [ty |-> "none"]
NoFile == [ty |-> "nofile"]

\* The texts read_csv parses as integers.
NumericTexts == {"1", "2"}

\* The id columns of the text files: distinct ids; all numeric, or with a
\* text that makes the whole column a column of strs.
TextFiles == {<<"1", "2">>, <<"1", "a">>}
OneRecordTextFiles == {<<"1">>}

\* sentiment_options (two of the four default options).
sentiment_options == {"positive", "negative"}

\* The two tags of the toggle buttons, as Python strs.
RETURN_LATER == <<"r","e","t","u","r","n","_","l","a","t","e","r">>
NOT_REL == <<"n","o","t","_","r","e","l">>
TagNames == {RETURN_LATER, NOT_REL}

StrV(t) == [ty |-> "str", tx |-> t]
IntV(t) == [ty |-> "int", tx |-> t]

\* A tags cell: a Python list of tags, or a Python str.
TagsList(l) == [ty |-> "list", items |-> l]
TagsStr(s) == [ty |-> "str", chars |-> s]

\* ------------------------------------------------------------ sequences
Range(s) == {s[i] : i \in 1..Len(s)}

IsInjective(s) == \A i, j \in 1..Len(s) : s[i] = s[j] => i = j

\* Python: needle in hay, for two strs.
StrContains(needle, hay) ==
    \E i \in 0..(Len(hay) - Len(needle)) :
        SubSeq(hay, i + 1, i + Len(needle)) = needle

\* Python: list.remove(x), the first occurrence.
RECURSIVE ListRemove(_, _)
ListRemove(l, x) ==
    IF l = <<>> THEN <<>>
    ELSE IF Head(l) = x THEN Tail(l)
    ELSE <<Head(l)>> \o ListRemove(Tail(l), x)

\* ------------------------------------------------------------ CSV
\* str(list) of a list of strs: ['return_later', 'not_rel'].
RECURSIVE ReprItems(_)
ReprItems(l) ==
    IF l = <<>> THEN <<>>
    ELSE <<"'">> \o Head(l) \o <<"'">>
         \o (IF Len(l) > 1 THEN <<",", " ">> ELSE <<>>)
         \o ReprItems(Tail(l))

PyRepr(l) == <<"[">> \o ReprItems(l) \o <<"]">>

\* The text to_csv writes for a tags cell: str(list) for a list, the str
\* itself for a str.
TagsCellText(cell) ==
    IF cell.ty = "list" THEN PyRepr(cell.items) ELSE cell.chars

\* The dtype read_csv infers for a column from its texts.
ColumnType(texts) ==
    IF texts # {} /\ texts \subseteq NumericTexts THEN "int" ELSE "str"

ParseCell(ty, t) == [ty |-> ty, tx |-> t]

\* DataFrame.to_csv(file, index=False) of the sentiment table.
to_csv_sentiment(df) ==
    [ty |-> "csv",
     rows |-> [i \in 1..Len(df) |->
                 [uid |-> df[i].uid.tx, sentiment |-> df[i].sentiment.tx]]]

\* DataFrame.to_csv(file, index=False) of the tags table.
to_csv_tags(df) ==
    [ty |-> "csv",
     rows |-> [i \in 1..Len(df) |->
                 [uid |-> df[i].uid.tx, tags |-> TagsCellText(df[i].tags)]]]

\* pd.read_csv(file, index_col=False) of a label file.
read_csv_sentiment(file) ==
    LET uty == ColumnType({file.rows[i].uid : i \in 1..Len(file.rows)})
        sty == ColumnType({file.rows[i].sentiment : i \in 1..Len(file.rows)})
    IN [i \in 1..Len(file.rows) |->
          [uid |-> ParseCell(uty, file.rows[i].uid),
           sentiment |-> ParseCell(sty, file.rows[i].sentiment)]]

\* pd.read_csv(file, index_col=False) of a tags file: the tags column holds
\* the written strs.
read_csv_tags(file) ==
    LET uty == ColumnType({file.rows[i].uid : i \in 1..Len(file.rows)})
    IN [i \in 1..Len(file.rows) |->
          [uid |-> ParseCell(uty, file.rows[i].uid),
           tags |-> TagsStr(file.rows[i].tags)]]

\* load_text_data: pd.read_csv of the text file, whose id column holds ids.
load_text_data(ids) ==
    LET uty == ColumnType(Range(ids))
    IN [i \in 1..Len(ids) |-> [uid |-> ParseCell(uty, ids[i])]]


\* ------------------------------------------------------------ state
VARIABLES
    text_df,             \* the records (their unique id column)
    sentiment_df,        \* rows [uid, sentiment]
    tags_df,             \* rows [uid, tags]
    label_file,          \* the label file on disk: NoFile or a CSV
    tags_file,           \* the tags file on disk: NoFile or a CSV
    auto_save,           \* the auto_save flag
    start_index,         \* the start_index argument: None or [ty, i]
    current_text_index,  \* the cursor
    current_uid,         \* None before the first rendering
    return_later_button, \* value of the "return later" toggle
    not_rel_button,      \* value of the "not relevant" toggle
    sentiment_buttons,   \* value of the sentiment control: None or an option
    phase,               \* "constructed", "widget", or "failed" (__init__ raised)
    err,                 \* the exception the last operation raised, or "none"
    restarts,            \* constructions over the saved files so far
    last_op,             \* history: the operation that ran last
    written,             \* history: the files the last operation wrote
    plain,               \* history: per id, the adds and removes replayed on a set
    select_order,        \* history: labelled ids in the order the user chose them
    saved_select_order   \* history: select_order when the label file was written

vars == <<text_df, sentiment_df, tags_df, label_file, tags_file, auto_save,
          start_index, current_text_index, current_uid, return_later_button,
          not_rel_button, sentiment_buttons, phase, err, restarts, last_op,
          written, plain, select_order, saved_select_order>>

\* The part of the state the methods of the client change, as one record.
Client ==
    [sentiment_df |-> sentiment_df, tags_df |-> tags_df,
     label_file |-> label_file, tags_file |-> tags_file,
     err |-> "none", written |-> {}, plain |-> plain,
     select_order |-> select_order, saved_select_order |-> saved_select_order]

Apply(c) ==
    /\ sentiment_df' = c.sentiment_df
    /\ tags_df' = c.tags_df
    /\ label_file' = c.label_file
    /\ tags_file' = c.tags_file
    /\ err' = c.err
    /\ written' = c.written
    /\ plain' = c.plain
    /\ select_order' = c.select_order
    /\ saved_select_order' = c.saved_select_order

Raise(c, e) == [c EXCEPT !.err = IF @ = "none" THEN e ELSE @]

\* ------------------------------------------------------------ tables
\* uid in df[uid_key].values
UidIn(df, uid) == \E i \in 1..Len(df) : df[i].uid = uid

\* df.loc[df[uid_key] == uid].iloc[0]
FirstRow(df, uid) ==
    df[CHOOSE i \in 1..Len(df) :
          df[i].uid = uid /\ \A j \in 1..(i - 1) : df[j].uid # uid]

\* df[df[uid_key] != uid]
DropUid(df, uid) == SelectSeq(df, LAMBDA r : r.uid # uid)

Uids(df) == {df[i].uid : i \in 1..Len(df)}

N == Len(text_df)

\* Mutant of InRange: positions below 0 are refused.
InRange_from_zero(i) == 0 <= i /\ i < N

\* text_df.iloc[i]: positions 0..N-1, and -N..-1 counted from the end;
\* any other position raises IndexError.
InRange(i) == -N <= i /\ i < N

iloc(i) == IF i >= 0 THEN text_df[i + 1] ELSE text_df[N + i + 1]

\* ------------------------------------------------------------ saving
save_label_data(c) ==
    [c EXCEPT !.label_file = to_csv_sentiment(c.sentiment_df),
              !.written = @ \cup {"label"},
              !.saved_select_order = c.select_order]

save_tags_data(c) ==
    [c EXCEPT !.tags_file = to_csv_tags(c.tags_df),
              !.written = @ \cup {"tags"}]

save_all(c) == save_tags_data(save_label_data(c))

do_auto_save(c) == IF auto_save THEN save_all(c) ELSE c

\* ------------------------------------------------------------ tags
\* history: the call replayed on a plain set, for an id that is followed
Replay(c, uid, tag, adding) ==
    IF uid \in DOMAIN c.plain /\ c.plain[uid].followed
    THEN [c EXCEPT !.plain[uid].set =
                      IF adding THEN @ \cup {tag} ELSE @ \ {tag}]
    ELSE c

\* tag in tmp_tags
TagIn(tag, cell) ==
    IF cell.ty = "list" THEN tag \in Range(cell.items)
    ELSE StrContains(tag, cell.chars)

\* The rest of add_tag once tmp_tags is known (lines 207-210).
PutTags(c, uid, cell) ==
    do_auto_save([c EXCEPT !.tags_df =
                     Append(DropUid(c.tags_df, uid),
                            [uid |-> uid, tags |-> cell])])

\* Mutant of add_tag: the tag is appended without the test for its presence.
add_tag_always_appends(c, uid, tag) ==
    LET r == Replay(c, uid, tag, TRUE)
    IN IF UidIn(c.tags_df, uid)
       THEN LET tmp_tags == FirstRow(c.tags_df, uid).tags
            IN IF tmp_tags.ty = "list"
               THEN PutTags(r, uid, TagsList(Append(tmp_tags.items, tag)))
               ELSE Raise(r, "AttributeError")
       ELSE PutTags(r, uid, TagsList(<<tag>>))

add_tag(c, uid, tag) ==
    LET r == Replay(c, uid, tag, TRUE)
    IN IF UidIn(c.tags_df, uid)
       THEN LET tmp_tags == FirstRow(c.tags_df, uid).tags
            IN IF TagIn(tag, tmp_tags) THEN PutTags(r, uid, tmp_tags)
               ELSE IF tmp_tags.ty = "list"
               THEN PutTags(r, uid, TagsList(Append(tmp_tags.items, tag)))
               \* a str has no append: the with block shows the error
               ELSE Raise(r, "AttributeError")
       ELSE PutTags(r, uid, TagsList(<<tag>>))

remove_tag(c, uid, tag) ==
    LET r == Replay(c, uid, tag, FALSE)
    IN IF UidIn(c.tags_df, uid)
       THEN LET tmp_tags == FirstRow(c.tags_df, uid).tags
                left == IF ~TagIn(tag, tmp_tags) THEN tmp_tags
                        ELSE TagsList(ListRemove(tmp_tags.items, tag))
            IN IF TagIn(tag, tmp_tags) /\ tmp_tags.ty = "str"
               \* a str has no remove
               THEN Raise(r, "AttributeError")
               ELSE IF left = TagsList(<<>>)
               THEN do_auto_save([r EXCEPT !.tags_df = DropUid(@, uid)])
               ELSE PutTags(r, uid, left)
       ELSE do_auto_save(r)

check_tag(df, uid, tag) ==
    UidIn(df, uid) /\ TagIn(tag, FirstRow(df, uid).tags)

\* ------------------------------------------------------------ sentiments
\* self.sentiment_df.loc[self.sentiment_df[uid_key] == uid].sentiment, or
\* None when the id is not labelled (lines 255-259)
get_sentiment(df, uid) ==
    IF UidIn(df, uid) THEN FirstRow(df, uid).sentiment ELSE None

\* The sentiments of the rows of uid, in table order (line 257).
sentiment_values(df, uid) == SelectSeq(df, LAMBDA r : r.uid = uid)

\* Mutant of sentiment_f: the new row is appended and the old one kept.
sentiment_f_keeps_old_row(c, idx, sentiment) ==
    IF ~InRange(idx) THEN Raise(c, "IndexError")
    ELSE LET tmp_uid == iloc(idx).uid
             new_sent_row == [uid |-> tmp_uid, sentiment |-> sentiment]
             set == [c EXCEPT !.sentiment_df = Append(@, new_sent_row)]
         IN IF sentiment = None THEN c
            ELSE IF auto_save THEN save_label_data(set) ELSE set

\* Mutant of sentiment_f: the selection is not saved.
sentiment_f_never_saves(c, idx, sentiment) ==
    IF ~InRange(idx) THEN Raise(c, "IndexError")
    ELSE LET tmp_uid == iloc(idx).uid
             new_sent_row == [uid |-> tmp_uid, sentiment |-> sentiment]
             dropped == IF UidIn(c.sentiment_df, tmp_uid)
                        THEN DropUid(c.sentiment_df, tmp_uid)
                        ELSE c.sentiment_df
         IN IF sentiment = None THEN c
            ELSE [c EXCEPT !.sentiment_df = Append(dropped, new_sent_row)]

\* The callback f of the sentiment control (lines 270-286), run with the
\* control's value while the cursor is idx.
sentiment_f(c, idx, sentiment) ==
    IF ~InRange(idx) THEN Raise(c, "IndexError")
    ELSE LET tmp_uid == iloc(idx).uid
             new_sent_row == [uid |-> tmp_uid, sentiment |-> sentiment]
             dropped == IF UidIn(c.sentiment_df, tmp_uid)
                        THEN DropUid(c.sentiment_df, tmp_uid)
                        ELSE c.sentiment_df
             set == [c EXCEPT !.sentiment_df = Append(dropped, new_sent_row)]
         IN IF sentiment = None THEN c
            ELSE IF auto_save THEN save_label_data(set) ELSE set

\* The callback f of the two toggles (lines 176-187).
special_f(c, uid, return_later, not_rel) ==
    LET c1 == IF return_later THEN add_tag(c, uid, RETURN_LATER)
              ELSE remove_tag(c, uid, RETURN_LATER)
    IN IF not_rel THEN add_tag(c1, uid, NOT_REL)
       ELSE remove_tag(c1, uid, NOT_REL)

\* ------------------------------------------------------------ rendering
\* What a rendering leaves behind: the client, the current id and the values
\* of the three controls.
Shown ==
    [c |-> Client, uid |-> current_uid, return_later |-> return_later_button,
     not_rel |-> not_rel_button, sentiment |-> sentiment_buttons]

\* Mutant of create_sent_select_subpanel_text_part: the toggles are
\* re-created off, whatever tags the record holds.
create_subpanel_toggles_off(c, idx) ==
    IF ~InRange(idx)
    THEN [Shown EXCEPT !.c = Raise(c, "IndexError")]
    ELSE LET uid == iloc(idx).uid
             current_sentiment == get_sentiment(c.sentiment_df, uid)
             c1 == special_f(c, uid, FALSE, FALSE)
         IN [c |-> sentiment_f(c1, idx, current_sentiment),
             uid |-> uid,
             return_later |-> FALSE,
             not_rel |-> FALSE,
             sentiment |-> current_sentiment]

\* create_sent_select_subpanel_text_part with the cursor at idx:
\* set_current_variables looks the record up (IndexError when idx is out of
\* range, and nothing is re-created); the toggles and the sentiment control
\* are re-created with the current values and their callbacks run once.
\* When the table has several rows for the record, the value handed to the
\* sentiment control (line 291) is an array of several sentiments, which
\* the control refuses (TraitError): the toggles' callback has run, the
\* sentiment callback has not, and the controls shown before stay.
create_sent_select_subpanel_text_part(c, idx) ==
    IF ~InRange(idx)
    THEN [Shown EXCEPT !.c = Raise(c, "IndexError")]
    ELSE LET uid == iloc(idx).uid
             current_return_later == check_tag(c.tags_df, uid, RETURN_LATER)
             current_not_rel == check_tag(c.tags_df, uid, NOT_REL)
             current_sentiment == get_sentiment(c.sentiment_df, uid)
             c1 == special_f(c, uid, current_return_later, current_not_rel)
         IN IF Len(sentiment_values(c.sentiment_df, uid)) > 1
            THEN [Shown EXCEPT !.c = Raise(c1, "TraitError"), !.uid = uid]
            ELSE [c |-> sentiment_f(c1, idx, current_sentiment),
                  uid |-> uid,
                  return_later |-> current_return_later,
                  not_rel |-> current_not_rel,
                  sentiment |-> current_sentiment]

Show(s) ==
    /\ Apply(s.c)
    /\ current_uid' = s.uid
    /\ return_later_button' = s.return_later
    /\ not_rel_button' = s.not_rel
    /\ sentiment_buttons' = s.sentiment

\* history: the user's choice of a sentiment for uid, or the reset of uid
Chosen(order, uid) == Append(SelectSeq(order, LAMBDA u : u # uid), uid)
Unchosen(order, uid) == SelectSeq(order, LAMBDA u : u # uid)

\* ------------------------------------------------------------ construction
\* Mutant of find_text_index_by_uid: the position counted from 1.
find_text_index_from_one(uid) ==
    IF \E i \in 1..N : text_df[i].uid = uid
    THEN CHOOSE i \in 1..N : text_df[i].uid = uid
    ELSE -1

\* find_text_index_by_uid: the first position whose id equals uid; -1 stands
\* for the IndexError of [0] on an empty list.
find_text_index_by_uid(uid) ==
    IF \E i \in 1..N : text_df[i].uid = uid
    THEN (CHOOSE i \in 1..N :
             text_df[i].uid = uid /\ \A j \in 1..(i - 1) : text_df[j].uid # uid) - 1
    ELSE -1

\* The cursor __init__ ends with (lines 53, 93-99), given the loaded table.
InitialIndex(start, df) ==
    IF start # None THEN start.i
    ELSE IF Len(df) > 0 THEN find_text_index_by_uid(df[Len(df)].uid)
    ELSE 0

StartIndexes == {None} \cup {[ty |-> "index", i |-> k] : k \in 0..(N - 1)}

NotFollowed == [followed |-> FALSE, set |-> {}]
Followed == [followed |-> TRUE, set |-> {}]

\* __init__ over the files on disk.
Construct(start, autosave) ==
    LET sdf == IF label_file # NoFile THEN read_csv_sentiment(label_file)
               ELSE <<>>
        tdf == IF tags_file # NoFile THEN read_csv_tags(tags_file) ELSE <<>>
        idx == InitialIndex(start, sdf)
        failed == idx < 0
    IN /\ start_index' = start
       /\ auto_save' = autosave
       \* when __init__ raises there is no client: the fields stay empty
       /\ sentiment_df' = IF failed THEN <<>> ELSE sdf
       /\ tags_df' = IF failed THEN <<>> ELSE tdf
       /\ current_text_index' = IF failed THEN 0 ELSE idx
       /\ phase' = IF failed THEN "failed" ELSE "constructed"
       /\ err' = IF failed THEN "IndexError" ELSE "none"
       /\ current_uid' = None
       /\ return_later_button' = FALSE
       /\ not_rel_button' = FALSE
       /\ sentiment_buttons' = None
       /\ last_op' = "__init__"
       /\ written' = {}
       /\ plain' = [u \in Uids(text_df) |->
                      IF UidIn(tdf, u) \/ failed THEN NotFollowed ELSE Followed]
       /\ select_order' = saved_select_order
       /\ UNCHANGED <<text_df, label_file, tags_file, saved_select_order>>

\* The state after the first construction, no label or tags file existing.
InitOn(files) ==
    /\ text_df \in {load_text_data(ids) : ids \in files}
    /\ label_file = NoFile
    /\ tags_file = NoFile
    /\ auto_save \in BOOLEAN
    /\ start_index \in StartIndexes
    /\ sentiment_df = <<>>
    /\ tags_df = <<>>
    /\ current_text_index = InitialIndex(start_index, <<>>)
    /\ current_uid = None
    /\ return_later_button = FALSE
    /\ not_rel_button = FALSE
    /\ sentiment_buttons = None
    /\ phase = "constructed"
    /\ err = "none"
    /\ restarts = 0
    /\ last_op = "__init__"
    /\ written = {}
    /\ plain = [u \in Uids(text_df) |-> Followed]
    /\ select_order = <<>>
    /\ saved_select_order = <<>>

\* ------------------------------------------------------------ actions
\* A new session: the client is constructed again over the same files.
Restart ==
    /\ restarts < MaxRestarts
    /\ restarts' = restarts + 1
    /\ \E start \in StartIndexes, autosave \in BOOLEAN :
          Construct(start, autosave)

\* create_widget: the buttons are made and the first rendering runs.
CreateWidget ==
    /\ phase = "constructed"
    /\ last_op' = "create_widget"
    /\ start_index' = None
    /\ LET s == create_sent_select_subpanel_text_part(Client, current_text_index)
       IN /\ Show(s)
          \* create_widget returns no widget when the rendering raises
          /\ phase' = IF s.c.err \in {"IndexError", "TraitError"}
                      THEN "constructed" ELSE "widget"
    /\ UNCHANGED <<text_df, auto_save, current_text_index, restarts>>

on_next_clicked ==
    /\ phase = "widget"
    /\ last_op' = "on_next_clicked"
    /\ current_text_index < N - 1 + MaxOvershoot
    /\ current_text_index' = current_text_index + 1
    /\ Show(create_sent_select_subpanel_text_part(Client, current_text_index + 1))
    /\ UNCHANGED <<text_df, auto_save, start_index, phase, restarts>>

on_prev_clicked ==
    /\ phase = "widget"
    /\ last_op' = "on_prev_clicked"
    /\ current_text_index > -N - MaxOvershoot
    /\ current_text_index' = current_text_index - 1
    /\ Show(create_sent_select_subpanel_text_part(Client, current_text_index - 1))
    /\ UNCHANGED <<text_df, auto_save, start_index, phase, restarts>>

on_save_clicked ==
    /\ phase = "widget"
    /\ last_op' = "on_save_clicked"
    /\ Apply(save_all(Client))
    /\ UNCHANGED <<text_df, auto_save, start_index, current_text_index,
                   current_uid, return_later_button, not_rel_button,
                   sentiment_buttons, phase, restarts>>

\* Mutant of on_del_clicked: the filter keeps the rows of the current id
\* instead of the others.
on_del_clicked_keeps_current ==
    /\ phase = "widget"
    /\ last_op' = "on_del_clicked"
    /\ LET c == [Client EXCEPT
                   !.sentiment_df = SelectSeq(@, LAMBDA r : r.uid = current_uid),
                   !.select_order = Unchosen(@, current_uid)]
           c1 == IF auto_save THEN save_label_data(c) ELSE c
       IN Show(create_sent_select_subpanel_text_part(c1, current_text_index))
    /\ UNCHANGED <<text_df, auto_save, start_index, current_text_index, phase,
                   restarts>>

on_del_clicked ==
    /\ phase = "widget"
    /\ last_op' = "on_del_clicked"
    /\ LET c == [Client EXCEPT
                   !.sentiment_df = DropUid(@, current_uid),
                   !.select_order = Unchosen(@, current_uid)]
           c1 == IF auto_save THEN save_label_data(c) ELSE c
       IN Show(create_sent_select_subpanel_text_part(c1, current_text_index))
    /\ UNCHANGED <<text_df, auto_save, start_index, current_text_index, phase,
                   restarts>>

\* The user picks another option of the sentiment control.
SelectSentiment ==
    /\ phase = "widget"
    /\ last_op' = "select"
    /\ \E v \in {StrV(o) : o \in sentiment_options} \ {sentiment_buttons} :
          /\ sentiment_buttons' = v
          /\ LET c == IF InRange(current_text_index)
                      THEN [Client EXCEPT !.select_order =
                              Chosen(@, iloc(current_text_index).uid)]
                      ELSE Client
             IN Apply(sentiment_f(c, current_text_index, v))
    /\ UNCHANGED <<text_df, auto_save, start_index, current_text_index,
                   current_uid, return_later_button, not_rel_button, phase,
                   restarts>>

\* The user flips one of the two toggles.
ToggleReturnLater ==
    /\ phase = "widget"
    /\ last_op' = "toggle"
    /\ return_later_button' = ~return_later_button
    /\ Apply(special_f(Client, current_uid, ~return_later_button, not_rel_button))
    /\ UNCHANGED <<text_df, auto_save, start_index, current_text_index,
                   current_uid, not_rel_button, sentiment_buttons, phase,
                   restarts>>

ToggleNotRel ==
    /\ phase = "widget"
    /\ last_op' = "toggle"
    /\ not_rel_button' = ~not_rel_button
    /\ Apply(special_f(Client, current_uid, return_later_button, ~not_rel_button))
    /\ UNCHANGED <<text_df, auto_save, start_index, current_text_index,
                   current_uid, return_later_button, sentiment_buttons, phase,
                   restarts>>

\* A direct call of the public method add_tag / remove_tag.
AddTag ==
    /\ phase \in {"constructed", "widget"}
    /\ last_op' = "add_tag"
    /\ \E uid \in Uids(text_df), tag \in TagNames :
          Apply(add_tag(Client, uid, tag))
    /\ UNCHANGED <<text_df, auto_save, start_index, current_text_index,
                   current_uid, return_later_button, not_rel_button,
                   sentiment_buttons, phase, restarts>>

RemoveTag ==
    /\ phase \in {"constructed", "widget"}
    /\ last_op' = "remove_tag"
    /\ \E uid \in Uids(text_df), tag \in TagNames :
          Apply(remove_tag(Client, uid, tag))
    /\ UNCHANGED <<text_df, auto_save, start_index, current_text_index,
                   current_uid, return_later_button, not_rel_button,
                   sentiment_buttons, phase, restarts>>

Next ==
    \/ Restart
    \/ CreateWidget
    \/ on_next_clicked
    \/ on_prev_clicked
    \/ on_save_clicked
    \/ on_del_clicked
    \/ SelectSentiment
    \/ ToggleReturnLater
    \/ ToggleNotRel
    \/ AddTag
    \/ RemoveTag

\* The user leaves the toggles and the tag methods alone.
NextSent ==
    \/ Restart
    \/ CreateWidget
    \/ on_next_clicked
    \/ on_prev_clicked
    \/ on_save_clicked
    \/ on_del_clicked
    \/ SelectSentiment

\* The user leaves the sentiment control and the reset button alone, and
\* calls no tag method directly.
NextTags ==
    \/ Restart
    \/ CreateWidget
    \/ on_next_clicked
    \/ on_prev_clicked
    \/ on_save_clicked
    \/ ToggleReturnLater
    \/ ToggleNotRel

Init == InitOn(OneRecordTextFiles)
InitTwo == InitOn(TextFiles)
InitInts == InitOn({<<"1", "2">>})
InitStrs == InitOn({<<"1", "a">>})

\* Every operation, over text files of one record.
Spec == Init /\ [][Next]_vars
\* One session without the save button, over text files of two records.
NextSession ==
    \/ CreateWidget
    \/ on_next_clicked
    \/ on_prev_clicked
    \/ on_del_clicked
    \/ SelectSentiment
    \/ ToggleReturnLater
    \/ ToggleNotRel

SpecSession == InitTwo /\ [][NextSession]_vars
\* Navigation over tables made in this session and in earlier ones, over
\* the text file of the two ids 1 and a.
NextNav ==
    \/ Restart
    \/ CreateWidget
    \/ on_next_clicked
    \/ on_prev_clicked
    \/ SelectSentiment
    \/ ToggleReturnLater

SpecNav == InitStrs /\ [][NextNav]_vars
\* The sentiment operations, over text files of two records.
SpecSent == InitTwo /\ [][NextSent]_vars
\* The tag operations, over the text file of the two ids 1 and 2.
SpecTags == InitInts /\ [][NextTags]_vars

\* ------------------------------------------------------------ views
StoreUids == Uids(text_df)

\* The set of tags an id holds, as check_tag answers.
TagSetOf(df, uid) == {t \in TagNames : check_tag(df, uid, t)}

TagView(df) == [u \in StoreUids |-> TagSetOf(df, u)]

SentimentView(df) == [u \in StoreUids |-> get_sentiment(df, u)]

RowsOf(df, uid) == {i \in 1..Len(df) : df[i].uid = uid}

\* The client with another tags table in place of its own.
WithTags(df) == [Client EXCEPT !.tags_df = df]

\* ------------------------------------------------------------ claims

\* C1: for every id that had no tag entry when its calls began, the tags
\* the table holds for it are the adds and removes replayed on a plain set,
\* an entry (one row, a list without repeats) exists exactly when that set
\* is not empty.
C1_TagReplay ==
    \A u \in DOMAIN plain :
        plain[u].followed =>
            /\ TagSetOf(tags_df, u) = plain[u].set
            /\ UidIn(tags_df, u) <=> plain[u].set # {}
            /\ Cardinality(RowsOf(tags_df, u)) <= 1
            /\ UidIn(tags_df, u) =>
                  /\ FirstRow(tags_df, u).tags.ty = "list"
                  /\ IsInjective(FirstRow(tags_df, u).tags.items)

\* A remove_tag has left an id without an entry and with an empty replayed
\* set, while the tags file, saved before, still has both its tags.
C1_Witness ==
    \E u \in DOMAIN plain :
        /\ plain[u].followed
        /\ last_op = "remove_tag"
        /\ plain[u].set = {}
        /\ ~UidIn(tags_df, u)
        /\ tags_file # NoFile
        /\ \E i \in 1..Len(tags_file.rows) :
              /\ tags_file.rows[i].uid = u.tx
              /\ tags_file.rows[i].tags = PyRepr(<<RETURN_LATER, NOT_REL>>)

\* C2: the tags table written to the tags file and read back answers
\* has_tag as the table did, and add_tag and remove_tag on what was read
\* back leave the same tags as on the table.
C2_TagRoundTrip ==
    LET loaded == read_csv_tags(to_csv_tags(tags_df))
    IN /\ TagView(loaded) = TagView(tags_df)
       /\ \A u \in StoreUids, t \in TagNames :
             /\ TagView(add_tag(WithTags(loaded), u, t).tags_df)
                  = TagView(add_tag(WithTags(tags_df), u, t).tags_df)
             /\ TagView(remove_tag(WithTags(loaded), u, t).tags_df)
                  = TagView(remove_tag(WithTags(tags_df), u, t).tags_df)

\* C3: the sentiment table written to the label file and read back holds
\* the same rows: every labelled id with its sentiment, and no other id.
C3_SentimentRoundTrip ==
    LET loaded == read_csv_sentiment(to_csv_sentiment(sentiment_df))
    IN /\ Range(loaded) = Range(sentiment_df)
       /\ SentimentView(loaded) = SentimentView(sentiment_df)

\* C4: with auto_save on, a step that selects a sentiment, resets the
\* current record, adds a tag or removes a tag, and raises nothing, has run
\* both save operations, and both files hold the tables.
MutatingStep ==
    SelectSentiment \/ on_del_clicked \/ AddTag \/ RemoveTag
    \/ ToggleReturnLater \/ ToggleNotRel

FilesHoldTables ==
    /\ label_file = to_csv_sentiment(sentiment_df)
    /\ tags_file = to_csv_tags(tags_df)

C5_OneEntryPerId ==
    \A i, j \in 1..Len(sentiment_df) :
        sentiment_df[i].uid = sentiment_df[j].uid => i = j

\* C6: find_text_index_by_uid of the id at position k is k, for every
\* position of the records, and the cursor __init__ sets from the last
\* labelled id is the position of the record with that id.
C6_JumpToId ==
    /\ \A k \in 0..(N - 1) : find_text_index_by_uid(iloc(k).uid) = k
    /\ (last_op = "__init__" /\ phase = "constructed" /\ start_index = None
          /\ Len(sentiment_df) > 0)
          => /\ current_text_index \in 0..(N - 1)
             /\ iloc(current_text_index).uid
                  = sentiment_df[Len(sentiment_df)].uid

\* A later construction has set the cursor to position 1 from the label file.
C6_Witness ==
    /\ last_op = "__init__"
    /\ phase = "constructed"
    /\ restarts >= 1
    /\ start_index = None
    /\ Len(sentiment_df) > 0
    /\ current_text_index = 1

\* C7: after a construction the cursor is the start index when one is
\* given; else the position of the id the user labelled last among the ids
\* labelled when the label file was written; else, nothing being labelled,
\* 0.
C7_InitialCursor ==
    (last_op = "__init__" /\ phase = "constructed") =>
        IF start_index # None THEN current_text_index = start_index.i
        ELSE IF label_file # NoFile /\ label_file.rows # <<>>
                /\ saved_select_order # <<>>
        THEN /\ current_text_index \in 0..(N - 1)
             /\ iloc(current_text_index).uid
                  = saved_select_order[Len(saved_select_order)]
        ELSE current_text_index = 0

NavigationOffTheEnd ==
    \/ on_next_clicked /\ current_text_index = N - 1
    \/ on_prev_clicked /\ current_text_index = 0

C10_LookupFails ==
    [][NavigationOffTheEnd =>
          /\ current_text_index' \notin 0..(N - 1)
          /\ err' = "IndexError"
          /\ current_uid' = current_uid]_vars

\* C10 as the code has it: forward from the last record the cursor is N and
\* the lookup fails; back from position 0 the cursor is -1 and the lookup
\* resolves to the last record; a navigation step fails exactly when its
\* cursor is outside -N..N-1.
C10_NoBoundsCheck ==
    [][(on_next_clicked \/ on_prev_clicked) =>
          /\ (on_next_clicked /\ current_text_index = N - 1) =>
                /\ current_text_index' = N
                /\ err' = "IndexError"
                /\ current_uid' = current_uid
          /\ (on_prev_clicked /\ current_text_index = 0) =>
                /\ current_text_index' = -1
                /\ err' = "none"
                /\ current_uid' = text_df[N].uid
          /\ err' = "IndexError" <=>
                (current_text_index' < -N \/ current_text_index' >= N)
          /\ err' \in {"none", "IndexError"}]_vars

\* The cursor is -1 and the last of two records is shown.
C10_Witness ==
    /\ last_op = "on_prev_clicked"
    /\ N = 2
    /\ current_text_index = -1
    /\ current_uid = text_df[N].uid
    /\ err = "none"

\* The rows of a table as a set, and whether no id has two rows.
Rows(df) == {df[i] : i \in 1..Len(df)}
OneRowPerId(df) == \A i, j \in 1..Len(df) : df[i].uid = df[j].uid => i = j

\* C11: a step to the next or the previous record, with the rendering it
\* runs (the toggles and the sentiment control re-created and their
\* callbacks run with the current values), leaves the records as they
\* were, and for every id of the records or of the tables the sentiment
\* and the tag set the client answers; the ids of each table are the same,
\* and a table with one row per id keeps its rows, in another order at most.
C11_NavigationFrame ==
    [][(on_next_clicked \/ on_prev_clicked) =>
          /\ text_df' = text_df
          /\ Uids(sentiment_df') = Uids(sentiment_df)
          /\ Uids(tags_df') = Uids(tags_df)
          /\ \A u \in StoreUids \cup Uids(sentiment_df) :
                get_sentiment(sentiment_df', u) = get_sentiment(sentiment_df, u)
          /\ \A u \in StoreUids \cup Uids(tags_df) :
                TagSetOf(tags_df', u) = TagSetOf(tags_df, u)
          /\ OneRowPerId(sentiment_df) =>
                /\ Rows(sentiment_df') = Rows(sentiment_df)
                /\ Len(sentiment_df') = Len(sentiment_df)
          /\ OneRowPerId(tags_df) =>
                /\ Rows(tags_df') = Rows(tags_df)
                /\ Len(tags_df') = Len(tags_df)]_vars

\* A step has shown, at a cursor in 0..N-1, a record holding a sentiment
\* and a tag: both callbacks ran with values that write, and the row of
\* the record shown is the last of the table though another id was
\* chosen after it.
C11_Witness ==
    /\ last_op \in {"on_next_clicked", "on_prev_clicked"}
    /\ current_text_index \in 0..(N - 1)
    /\ err = "none"
    /\ sentiment_buttons # None
    /\ return_later_button
    /\ Len(sentiment_df) = 2
    /\ sentiment_df[2].uid = current_uid
    /\ Len(select_order) = 2
    /\ select_order[2] # current_uid

=============================================================================
